---- MODULE Spec2Model ----
(***************************************************************************)
(* Type inference for NumPy calls (numba/type_inference/modules/           *)
(* numpymodule.py).  Every resolver is a pure function from the bound      *)
(* call arguments (AST nodes carrying an inferred type, or None when the   *)
(* argument is absent) to a result type, to None ("could not infer") or    *)
(* to a raised Python exception.  The state machine performs one call of   *)
(* one resolver at a time and records the call and its outcome.            *)
(***************************************************************************)
EXTENDS Integers, FiniteSets, Sequences, TLC

VARIABLES fn, args, result

vars == <<fn, args, result>>

\* Bounds of the explored type universe.
MaxRank == 2    \* array argument types have ndim in 0..MaxRank
MaxSize == 2    \* sized tuple/list argument types have size in 0..MaxSize

----------------------------------------------------------------------------
(* Outcomes that are not types *)

\* Python's None: an absent argument, or a resolver's "unresolved" result.
None == [tag |-> "None"]

\* A raised Python exception (AttributeError / TypeError) leaving the call.
Raise == [tag |-> "raise"]

IsRaise(x) == x.tag = "raise"

----------------------------------------------------------------------------
(* The type system used by the module (minitypes / typesystem) *)

Scalar(n) == [tag |-> "scalar", name |-> n]

bool_   == Scalar("bool_")
int64   == Scalar("int64")
float64 == Scalar("float64")
npy_intp == Scalar("npy_intp")

\* object_: the dynamic object type.
object_ == [tag |-> "object"]

\* minitypes.ArrayType(dtype, ndim) / typesystem.array(dtype, ndim) / dtype[:]
\* A failed evaluation of the dtype operand propagates.
ArrayType(d, n) ==
    IF IsRaise(d) THEN Raise
    ELSE [tag |-> "array", dtype |-> d, ndim |-> n]

\* The size attribute of a container type built without a size.
Unsized == 0 - 1

\* typesystem.tuple_(base_type, size) and the list type; size = Unsized when
\* the constructor is called without a size.
TupleType(b, s) == [tag |-> "tuple", base |-> b, size |-> s]
ListType(b, s)  == [tag |-> "list", base |-> b, size |-> s]

\* typesystem.NumpyDtypeType(dtype=...): the type of a value that is a dtype.
NumpyDtypeType(d) == [tag |-> "numpy_dtype", dtype |-> d]

\* The type of an attribute of the numpy module, e.g. np.double.
NumpyAttributeType(a) == [tag |-> "numpy_attribute", attr |-> a]

\* An AST node whose variable carries an inferred type.
Node(t) == [tag |-> "node", type |-> t]

(* Classification flags; a flag a type does not define reads as False. *)
is_array(t)           == t.tag = "array"
is_tuple(t)           == t.tag = "tuple"
is_list(t)            == t.tag = "list"
is_numpy_dtype(t)     == t.tag = "numpy_dtype"
is_numpy_attribute(t) == t.tag = "numpy_attribute"
is_int(t)             == t.tag = "scalar" /\ t.name \in {"int64", "npy_intp"}
is_sized(t)           == t.tag \in {"tuple", "list"} /\ t.size >= 0
is_object(t) ==
    t.tag \in {"object", "tuple", "list", "numpy_dtype", "numpy_attribute"}

(* Attribute reads.  Reading an attribute the value does not have (None     *)
(* included) raises AttributeError.                                        *)
attr_dtype(t) ==
    CASE t.tag \in {"array", "numpy_dtype"} -> t.dtype
      [] t.tag \in {"tuple", "list"}        -> t.base
      [] OTHER                              -> Raise

attr_ndim(t) == IF t.tag = "array" THEN t.ndim ELSE Raise

\* a.variable.type
variable_type(a) == IF a.tag = "node" THEN a.type ELSE Raise

\* get_type(node) of the surrounding compiler: the node's inferred type.
get_type(a) == variable_type(a)

(* context.promote_types: the join of the numeric tower                     *)
(* bool_ < int64 < float64; anything that is not a numeric kind gives       *)
(* object_; two array types give the array of the promoted element kind at  *)
(* the larger rank.                                                        *)
KindLevel(t) ==
    CASE t.name = "bool_"   -> 0
      [] t.name = "int64"   -> 1
      [] t.name = "npy_intp" -> 1
      [] OTHER              -> 2

RECURSIVE promote_types(_, _)
promote_types(a, b) ==
    IF IsRaise(a) \/ IsRaise(b) THEN Raise
    ELSE IF a.tag = "scalar" /\ b.tag = "scalar"
    THEN IF KindLevel(a) >= KindLevel(b) THEN a ELSE b
    ELSE IF a.tag = "array" /\ b.tag = "array"
    THEN ArrayType(promote_types(a.dtype, b.dtype),
                   IF a.ndim >= b.ndim THEN a.ndim ELSE b.ndim)
    ELSE object_

\* type.copy(dtype=d): a copy of the type with the dtype attribute replaced.
copy_dtype(t, d) ==
    IF IsRaise(t) \/ IsRaise(d) THEN Raise
    ELSE IF t.tag = "array" THEN [t EXCEPT !.dtype = d]
    ELSE t

(* getattr(dtype.module, dtype.attr, None): what the numpy module binds the *)
(* attribute name to.                                                      *)
\*   "generic"  a scalar class, subclass of np.generic (np.float64)
\*   "dtype"    an np.dtype instance
\*   "class"    a class that is not a subclass of np.generic (np.ndarray)
\*   "value"    not a class (np.pi, np.sum)
\*   "missing"  no such attribute: getattr gives None
numpy_getattr(a) ==
    CASE a = "float64"   -> [isa |-> "generic", kind |-> float64]
      [] a = "int64"     -> [isa |-> "generic", kind |-> int64]
      [] a = "int64_dt"  -> [isa |-> "dtype", kind |-> int64]
      [] a = "ndarray"   -> [isa |-> "class", kind |-> object_]
      [] a = "pi"        -> [isa |-> "value", kind |-> object_]
      [] OTHER           -> [isa |-> "missing", kind |-> object_]

AttrNames == {"float64", "int64", "int64_dt", "ndarray", "pi", "nosuch"}

----------------------------------------------------------------------------
(* numpymodule.py: type definitions and utilities *)

index_array_t == ArrayType(npy_intp, 1)

resolve_attribute_dtype(dt) ==
    IF IsRaise(dt) THEN Raise
    ELSE IF is_numpy_dtype(dt) THEN dt
    ELSE IF is_numpy_attribute(dt)
    THEN LET numpy_attr == numpy_getattr(dt.attr)
         IN IF numpy_attr.isa = "dtype" THEN NumpyDtypeType(numpy_attr.kind)
            \* issubclass(x, np.generic) raises TypeError unless x is a class
            ELSE IF numpy_attr.isa \in {"value", "missing"} THEN Raise
            ELSE IF numpy_attr.isa = "generic"
            THEN NumpyDtypeType(numpy_attr.kind)
            ELSE None
    ELSE None

get_dtype(dtype_arg, default_dtype) ==
    IF IsRaise(default_dtype) THEN Raise
    ELSE IF dtype_arg = None
    THEN IF default_dtype = None THEN None
         ELSE NumpyDtypeType(default_dtype)
    ELSE resolve_attribute_dtype(variable_type(dtype_arg))

\* A variant of promote_to_array that promotes a scalar to a 1d array type.
promote_to_array_1d(dt) ==
    IF IsRaise(dt) THEN Raise
    ELSE IF ~is_array(dt) THEN ArrayType(dt, 1)
    ELSE dt

promote_to_array(dt) ==
    IF IsRaise(dt) THEN Raise
    ELSE IF ~is_array(dt) THEN ArrayType(dt, 0)
    ELSE dt

RECURSIVE array_from_type(_)

array_from_object(a) ==
    LET t == variable_type(a)
    IN IF IsRaise(t) THEN Raise ELSE array_from_type(t)

array_from_type(type) ==
    IF is_array(type) THEN type
    ELSE IF is_tuple(type) \/ is_list(type)
    THEN LET dt == array_from_object(attr_dtype(type))
         IN IF IsRaise(dt) THEN Raise
            ELSE IF is_array(dt) THEN [dt EXCEPT !.ndim = dt.ndim + 1]
            ELSE object_
    ELSE IF ~is_object(type) THEN ArrayType(type, 0)
    ELSE object_

----------------------------------------------------------------------------
(* numpymodule.py: resolution of NumPy calls *)

\* np.dtype(obj, align)
dtype(obj, align) ==
    IF obj = None THEN None
    ELSE get_dtype(obj, None)

\* A variant of empty_like that hands back the type of a non-array `a`.
empty_like_passthrough(a, dtype_arg, order) ==
    IF a = None THEN None
    ELSE LET type == get_type(a)
         IN IF is_array(type)
            THEN IF dtype_arg # None
                 THEN LET dtype_type == get_dtype(dtype_arg, None)
                      IN IF IsRaise(dtype_type) THEN Raise
                         ELSE IF dtype_type = None THEN type
                         ELSE ArrayType(attr_dtype(dtype_type), type.ndim)
                 ELSE ArrayType(type.dtype, type.ndim)
            ELSE type

\* np.empty_like / np.zeros_like / np.ones_like
empty_like(a, dtype_arg, order) ==
    IF a = None THEN None
    ELSE LET type == get_type(a)
         IN IF is_array(type)
            THEN IF dtype_arg # None
                 THEN LET dtype_type == get_dtype(dtype_arg, None)
                      IN IF IsRaise(dtype_type) THEN Raise
                         ELSE IF dtype_type = None THEN type
                         ELSE ArrayType(attr_dtype(dtype_type), type.ndim)
                 ELSE ArrayType(type.dtype, type.ndim)
            ELSE None

\* np.empty / np.zeros / np.ones
empty(shape, dtype_arg, order) ==
    IF shape = None THEN None
    ELSE LET dtype_type == get_dtype(dtype_arg, float64)
             shape_type == get_type(shape)
         IN IF IsRaise(dtype_type) THEN Raise
            ELSE IF is_int(shape_type)
            THEN ArrayType(attr_dtype(dtype_type), 1)
            ELSE IF is_tuple(shape_type) \/ is_list(shape_type)
            THEN ArrayType(attr_dtype(dtype_type), shape_type.size)
            ELSE None

\* np.arange(start, stop, step, dtype)
arange(start, stop, step, dtype_arg) ==
    LET dtype_type == get_dtype(dtype_arg, int64)
    IN IF IsRaise(dtype_type) THEN Raise
       ELSE IF dtype_type # None THEN ArrayType(attr_dtype(dtype_type), 1)
       ELSE None

\* np.dot(a, b, out)
dot(a, b, out) ==
    IF out # None THEN get_type(out)
    ELSE LET lhs_type == promote_to_array(get_type(a))
             rhs_type == promote_to_array(get_type(b))
         IN IF IsRaise(lhs_type) \/ IsRaise(rhs_type) THEN Raise
            ELSE LET dt == promote_types(lhs_type.dtype, rhs_type.dtype)
                     dst_ndim == lhs_type.ndim + rhs_type.ndim - 2
                 IN ArrayType(dt, dst_ndim)

\* np.array(object, dtype, order, subok)
array(object, dtype_arg, order, subok) ==
    LET type == array_from_object(object)
    IN IF IsRaise(type) THEN Raise
       ELSE IF dtype_arg # None THEN copy_dtype(type, get_type(dtype_arg))
       ELSE type

_nonzero(type) ==
    IF IsRaise(type) THEN Raise
    ELSE IF is_array(type) THEN TupleType(index_array_t, type.ndim)
    ELSE TupleType(index_array_t, Unsized)

\* np.nonzero(a)
nonzero(a) == _nonzero(array_from_object(a))

\* np.where(condition, x, y)
where(condition, x, y) ==
    IF x = None /\ y = None THEN nonzero(condition)
    ELSE LET xtype == array_from_object(x)
             ytype == array_from_object(y)
         IN promote_types(xtype, ytype)

\* A variant of reduce_ that keeps the rank of the source for an integer axis.
reduce_keep_rank(a, axis, dtype_arg, out) ==
    IF out # None THEN get_type(out)
    ELSE LET array_type == get_type(a)
             dtype_type == attr_dtype(get_dtype(dtype_arg,
                               IF IsRaise(array_type) THEN Raise
                               ELSE attr_dtype(array_type)))
         IN IF IsRaise(dtype_type) THEN Raise
            ELSE IF axis = None THEN dtype_type
            ELSE LET axis_type == get_type(axis)
                 IN IF is_tuple(axis_type) /\ is_sized(axis_type)
                    THEN IF ~is_array(array_type) THEN Raise
                         ELSE ArrayType(dtype_type,
                                  attr_ndim(array_type) - axis_type.size)
                    ELSE IF is_int(axis_type)
                    THEN IF ~is_array(array_type) THEN Raise
                         ELSE ArrayType(dtype_type, attr_ndim(array_type))
                    ELSE object_

\* np.sum / np.prod
reduce_(a, axis, dtype_arg, out) ==
    IF out # None THEN get_type(out)
    ELSE LET array_type == get_type(a)
             dtype_type == attr_dtype(get_dtype(dtype_arg,
                               IF IsRaise(array_type) THEN Raise
                               ELSE attr_dtype(array_type)))
         IN IF IsRaise(dtype_type) THEN Raise
            ELSE IF axis = None THEN dtype_type
            ELSE LET axis_type == get_type(axis)
                 IN IF is_tuple(axis_type) /\ is_sized(axis_type)
                    THEN IF ~is_array(array_type) THEN Raise
                         ELSE ArrayType(dtype_type,
                                  attr_ndim(array_type) - axis_type.size)
                    ELSE IF is_int(axis_type)
                    THEN IF ~is_array(array_type) THEN Raise
                         ELSE ArrayType(dtype_type, attr_ndim(array_type) - 1)
                    ELSE object_

----------------------------------------------------------------------------
(* The argument universe *)

Kinds == {bool_, int64, float64}

ArrayTypes == {ArrayType(k, n) : k \in Kinds, n \in 0..MaxRank}

Sizes == {Unsized} \cup (0..MaxSize)

\* Tuples and lists of integers, and of one-element integer lists.
ContainerTypes ==
    {TupleType(b, s) : b \in {int64, ListType(int64, 1)}, s \in Sizes}
    \cup {ListType(b, s) : b \in {int64, ListType(int64, 1)}, s \in Sizes}

DtypeTypes ==
    {NumpyDtypeType(k) : k \in {int64, float64}}
    \cup {NumpyAttributeType(a) : a \in AttrNames}

Types == Kinds \cup ArrayTypes \cup ContainerTypes \cup DtypeTypes
         \cup {object_}

Nodes(S) == {Node(t) : t \in S}

\* Any argument: absent, or an expression of any type.
AnyArg == {None} \cup Nodes(Types)

\* dtype arguments: absent, dtype values, numpy attributes, or something
\* that is no dtype at all.
DtypeArgs == {None} \cup Nodes(DtypeTypes \cup {int64, object_})

\* axis arguments
AxisArgs ==
    {None} \cup Nodes({int64, float64, object_, ArrayType(int64, 1),
                       ListType(int64, 1)}
                      \cup {TupleType(int64, s) : s \in Sizes})

\* out arguments
OutArgs == {None} \cup Nodes({ArrayType(float64, 1), object_})

\* arguments the resolvers never look at (align, order, subok, start, ...)
IgnoredArgs == {None, Node(int64)}

----------------------------------------------------------------------------
(* The state machine: a call, then the return of its outcome *)

Init ==
    /\ fn = "idle"
    /\ args = None
    /\ result = None

CallDtype ==
    /\ fn = "idle"
    /\ \E obj \in AnyArg, align \in IgnoredArgs :
           /\ fn' = "dtype"
           /\ args' = [obj |-> obj, align |-> align]
           /\ result' = dtype(obj, align)

CallEmptyLike ==
    /\ fn = "idle"
    /\ \E name \in {"empty_like", "zeros_like", "ones_like"},
          a \in AnyArg, dtype_arg \in DtypeArgs, order \in IgnoredArgs :
           /\ fn' = name
           /\ args' = [a |-> a, dtype |-> dtype_arg, order |-> order]
           /\ result' = empty_like(a, dtype_arg, order)

CallEmpty ==
    /\ fn = "idle"
    /\ \E name \in {"empty", "zeros", "ones"},
          shape \in AnyArg, dtype_arg \in DtypeArgs, order \in IgnoredArgs :
           /\ fn' = name
           /\ args' = [shape |-> shape, dtype |-> dtype_arg, order |-> order]
           /\ result' = empty(shape, dtype_arg, order)

CallArange ==
    /\ fn = "idle"
    /\ \E start \in IgnoredArgs, stop \in IgnoredArgs, step \in IgnoredArgs,
          dtype_arg \in DtypeArgs :
           /\ fn' = "arange"
           /\ args' = [start |-> start, stop |-> stop, step |-> step,
                       dtype |-> dtype_arg]
           /\ result' = arange(start, stop, step, dtype_arg)

CallDot ==
    /\ fn = "idle"
    /\ \E a \in AnyArg, b \in AnyArg, out \in OutArgs :
           /\ fn' = "dot"
           /\ args' = [a |-> a, b |-> b, out |-> out]
           /\ result' = dot(a, b, out)

CallArray ==
    /\ fn = "idle"
    /\ \E object \in AnyArg, dtype_arg \in DtypeArgs,
          order \in IgnoredArgs, subok \in IgnoredArgs :
           /\ fn' = "array"
           /\ args' = [object |-> object, dtype |-> dtype_arg,
                       order |-> order, subok |-> subok]
           /\ result' = array(object, dtype_arg, order, subok)

CallNonzero ==
    /\ fn = "idle"
    /\ \E a \in AnyArg :
           /\ fn' = "nonzero"
           /\ args' = [a |-> a]
           /\ result' = nonzero(a)

CallWhere ==
    /\ fn = "idle"
    /\ \E condition \in AnyArg, x \in AnyArg, y \in AnyArg :
           /\ fn' = "where"
           /\ args' = [condition |-> condition, x |-> x, y |-> y]
           /\ result' = where(condition, x, y)

CallReduce ==
    /\ fn = "idle"
    /\ \E name \in {"sum", "prod"},
          a \in AnyArg, axis \in AxisArgs, dtype_arg \in DtypeArgs,
          out \in OutArgs :
           /\ fn' = name
           /\ args' = [a |-> a, axis |-> axis, dtype |-> dtype_arg, out |-> out]
           /\ result' = reduce_(a, axis, dtype_arg, out)

\* The utilities, called on their own.
CallGetDtype ==
    /\ fn = "idle"
    /\ \E dtype_arg \in AnyArg, default_dtype \in {None} \cup Kinds :
           /\ fn' = "get_dtype"
           /\ args' = [dtype_arg |-> dtype_arg, default_dtype |-> default_dtype]
           /\ result' = get_dtype(dtype_arg, default_dtype)

CallArrayFromType ==
    /\ fn = "idle"
    /\ \E type \in Types \ DtypeTypes :
           /\ fn' = "array_from_type"
           /\ args' = [type |-> type]
           /\ result' = array_from_type(type)

\* The outcome is handed back to the caller; the module keeps no state.
Return ==
    /\ fn # "idle"
    /\ fn' = "idle"
    /\ args' = None
    /\ result' = None

Next ==
    \/ CallDtype
    \/ CallEmptyLike
    \/ CallEmpty
    \/ CallArange
    \/ CallDot
    \/ CallArray
    \/ CallNonzero
    \/ CallWhere
    \/ CallReduce
    \/ CallGetDtype
    \/ CallArrayFromType
    \/ Return

Spec == Init /\ [][Next]_vars

----------------------------------------------------------------------------
(* Properties *)

ResolverNames ==
    {"dtype", "empty_like", "zeros_like", "ones_like", "empty", "zeros",
     "ones", "arange", "dot", "array", "nonzero", "where", "sum", "prod"}

Present(a) == a.tag = "node"

\* Element kind and rank of an operand that is an array or a scalar kind.
ElementOf(t) == IF t.tag = "array" THEN t.dtype ELSE t
RankOf(t)    == IF t.tag = "array" THEN t.ndim ELSE 0

\* C1: every registered resolver is total: whatever arguments are absent or
\* present, the call ends with a type or with None, never with a raised
\* failure.
C1_ResolversTotal ==
    fn \in ResolverNames => ~IsRaise(result)

\* C2: empty/zeros/ones with a present shape: an integer shape gives an
\* array of rank 1, a sized tuple or list of size n an array of rank n, any
\* other shape type gives None; the element kind is that of the resolved
\* dtype argument and float64 when the dtype argument is absent.
C2_EmptyRankAndKind ==
    (fn \in {"empty", "zeros", "ones"} /\ Present(args.shape)) =>
        LET st == args.shape.type
            n  == IF is_int(st) THEN 1 ELSE st.size
            dt == IF args.dtype = None THEN NumpyDtypeType(float64)
                  ELSE resolve_attribute_dtype(args.dtype.type)
        IN IF is_int(st) \/ ((is_tuple(st) \/ is_list(st)) /\ is_sized(st))
           THEN /\ result.tag = "array"
                /\ result.ndim = n
                /\ dt.tag = "numpy_dtype" => result.dtype = dt.dtype
           ELSE result = None

\* C3: sum/prod of an array of rank R and element kind E, out and dtype
\* absent: no axis gives the scalar kind E, an integer axis an array of E of
\* rank R-1, a sized tuple axis of size k an array of E of rank R-k, any
\* other axis type the dynamic object type.
C3_ReduceAxisPolicy ==
    (/\ fn \in {"sum", "prod"}
     /\ args.out = None
     /\ args.dtype = None
     /\ Present(args.a)
     /\ is_array(args.a.type)) =>
        LET E == args.a.type.dtype
            R == args.a.type.ndim
            ax == args.axis
        IN IF ax = None THEN result = E
           ELSE IF is_int(ax.type)
           THEN result = [tag |-> "array", dtype |-> E, ndim |-> R - 1]
           ELSE IF is_tuple(ax.type) /\ ax.type.size >= 0
           THEN result = [tag |-> "array", dtype |-> E,
                          ndim |-> R - ax.type.size]
           ELSE result = object_

C3_Witness ==
    /\ fn = "sum"
    /\ args.a = Node(ArrayType(float64, 2))
    /\ args.axis = Node(int64)
    /\ args.dtype = None
    /\ args.out = None
    /\ result = ArrayType(float64, 1)

\* C4: nonzero(a) is a sized tuple of index arrays (npy_intp[:]): of size R
\* for an array of rank R >= 1, of size exactly 1 for a scalar.
C4_NonzeroTupleSize ==
    (fn = "nonzero" /\ Present(args.a)) =>
        LET t == args.a.type
        IN /\ (is_array(t) /\ t.ndim >= 1) =>
                  result = TupleType(index_array_t, t.ndim)
           /\ t.tag = "scalar" => result = TupleType(index_array_t, 1)

\* C5: dot(a, b) without out, a and b arrays or scalar kinds: the result is
\* the array of promote(a.element, b.element) of rank a.rank + b.rank - 2,
\* a scalar counting as rank 0.
C5_DotRankArithmetic ==
    (/\ fn = "dot"
     /\ args.out = None
     /\ Present(args.a) /\ args.a.type.tag \in {"array", "scalar"}
     /\ Present(args.b) /\ args.b.type.tag \in {"array", "scalar"}) =>
        LET ta == args.a.type
            tb == args.b.type
        IN result = [tag |-> "array",
                     dtype |-> promote_types(ElementOf(ta), ElementOf(tb)),
                     ndim |-> RankOf(ta) + RankOf(tb) - 2]

C5_Witness ==
    /\ fn = "dot"
    /\ args.a = Node(ArrayType(int64, 2))
    /\ args.b = Node(ArrayType(float64, 1))
    /\ args.out = None
    /\ result = ArrayType(float64, 1)

\* C6 (as claimed): empty_like/zeros_like/ones_like of a present non-array
\* `a` returns exactly the type of `a`, whatever the dtype argument.
C6_LikePassthrough ==
    (/\ fn \in {"empty_like", "zeros_like", "ones_like"}
     /\ Present(args.a)
     /\ ~is_array(args.a.type)) => result = args.a.type

\* C6 (amended): empty_like/zeros_like/ones_like of a present non-array `a`
\* returns None (unresolved), whatever the dtype argument.
C6_LikeNonArrayUnresolved ==
    (/\ fn \in {"empty_like", "zeros_like", "ones_like"}
     /\ Present(args.a)
     /\ ~is_array(args.a.type)) => result = None

C6_Witness ==
    /\ fn = "zeros_like"
    /\ args.a = Node(int64)
    /\ args.dtype = Node(NumpyDtypeType(float64))
    /\ result = None

\* C7: array(object, dtype) with a dtype argument denoting element kind K
\* is an array of element kind K whose rank is that of
\* array_from_type(type of object).
C7_ArrayDtypeOverride ==
    (/\ fn = "array"
     /\ Present(args.object)
     /\ Present(args.dtype)
     /\ args.object.type.tag \in {"array", "scalar"}
     /\ args.dtype.type.tag = "numpy_dtype") =>
        result = [tag |-> "array",
                  dtype |-> args.dtype.type.dtype,
                  ndim |-> RankOf(args.object.type)]

\* C8: dtype resolution never raises: a dtype value type comes back
\* unchanged, an absent argument gives the default's dtype value type (None
\* without a default), a numpy attribute that is no dtype member gives None,
\* and so does any other argument type.
C8_GetDtypeNeverRaises ==
    fn = "get_dtype" =>
        LET d == args.dtype_arg
        IN /\ ~IsRaise(result)
           /\ d = None =>
                  result = IF args.default_dtype = None THEN None
                           ELSE NumpyDtypeType(args.default_dtype)
           /\ (Present(d) /\ is_numpy_dtype(d.type)) => result = d.type
           /\ (/\ Present(d)
               /\ is_numpy_attribute(d.type)
               /\ numpy_getattr(d.type.attr).isa \notin {"generic", "dtype"})
                  => result = None
           /\ (/\ Present(d)
               /\ ~is_numpy_dtype(d.type)
               /\ ~is_numpy_attribute(d.type)) => result = None

\* The type carries no tuple or list of unknown size.
SizedType(t) == t.tag \in {"tuple", "list"} => t.size >= 0

ArgsSized == \A p \in DOMAIN args : Present(args[p]) => SizedType(args[p].type)

\* C9: every array type a resolver returns has rank >= 0, when the argument
\* array ranks and tuple sizes are >= 0.
C9_RankNonNegative ==
    (fn \in ResolverNames /\ ArgsSized /\ result.tag = "array") =>
        result.ndim >= 0

\* C10: array coercion is idempotent and total on scalars, arrays, tuples,
\* lists and the dynamic object: a tuple or list whose element coerces to an
\* array of rank r coerces to rank r+1, the dynamic object coerces to the
\* dynamic object type.
C10_ArrayFromTypeIdempotent ==
    fn = "array_from_type" =>
        LET t == args.type
        IN /\ ~IsRaise(result)
           /\ array_from_type(result) = result
           /\ t = object_ => result = object_
           /\ (is_tuple(t) \/ is_list(t)) =>
                  LET e == array_from_type(t.base)
                  IN e.tag = "array" =>
                         result = [e EXCEPT !.ndim = e.ndim + 1]

====
